---- MODULE Spec2Model ----
(***************************************************************************)
(* Model of src/app.py: the air-quality monitor of Mexico City stations.   *)
(*                                                                         *)
(* Concentrations are modelled on an integer grid of 1/1000 ppm, so that   *)
(* the limit 5.5 ppm is 5500 and 0.055 ppm is 55.  A pandas missing value  *)
(* (NaN / None in a numeric column) is the empty tuple and a present value *)
(* v is the one-element tuple <<v>>.                                        *)
(*                                                                         *)
(* The module holds several specifications over one set of variables:      *)
(*   SpecClassify  evaluar_calidad_aire and the calidad_* functions        *)
(*   SpecSinaica   the body of get_sinaica_data on one page                *)
(*   SpecOpenAQ    the body of get_openaq_data, one upstream call a step   *)
(*   SpecScan      the main scan loop over the selected stations           *)
(*   SpecCache     the two st.cache_data wrappers shared by sessions       *)
(* Each specification holds the variables of the others at their initial   *)
(* values.                                                                 *)
(***************************************************************************)
EXTENDS Integers, Sequences, FiniteSets, TLC

VARIABLES
    \* SpecClassify
    df,              \* the frame handed to evaluar_calidad_aire
    evaluado,        \* its return value, or NotRun
    \* SpecSinaica
    html,            \* the page: the conts blob and the meteo blob
    sinaica_ret,     \* return value of the body of get_sinaica_data
    \* SpecOpenAQ
    oq,              \* the running get_openaq_data call
    \* SpecScan
    scan,            \* the script run: widgets, loop position, outputs
    \* SpecCache
    cache,           \* entries of st.cache_data: key -> value, time written
    callers,         \* per session thread: its call of a cached function
    now,             \* the clock, seconds
    audit            \* history: upstream calls and invalidations

vars == <<df, evaluado, html, sinaica_ret, oq, scan, cache, callers, now, audit>>

-----------------------------------------------------------------------------
(* Values *)

NaN == <<>>
Val(v) == <<v>>
IsNa(x) == x = NaN

None == "None"
NotRun == [kind |-> "NotRun"]
NoneDF == [kind |-> "None"]

\* A frame of at most one row: its columns, and the row's index and cells.
EmptyDF == [kind |-> "df", rows |-> <<>>]
OneRow(idx, cells) == [kind |-> "df", rows |-> <<[index |-> idx, cells |-> cells]>>]
IsNoneDF(d) == d.kind = "None"
IsEmptyDF(d) == d.kind = "df" /\ d.rows = <<>>
HasData(d) == d.kind = "df" /\ d.rows # <<>>

-----------------------------------------------------------------------------
(* Quality functions, lines 69-121 *)

CO_BUENA == 5500
CO_REGULAR == 11000
O3_BUENA == 55
O3_REGULAR == 95
NO2_BUENA == 100
NO2_REGULAR == 210
NOX_BUENA == 100
NOX_REGULAR == 200
NO_BUENA == 50
NO_REGULAR == 150

\* calidad_co with the limits exclusive.
calidad_co_lt(co) ==
    IF IsNa(co) THEN None
    ELSE IF co[1] < CO_BUENA THEN "Buena"
    ELSE IF co[1] < CO_REGULAR THEN "Regular"
    ELSE "Mala"

calidad_co(co) ==
    IF IsNa(co) THEN None
    ELSE IF co[1] <= CO_BUENA THEN "Buena"
    ELSE IF co[1] <= CO_REGULAR THEN "Regular"
    ELSE "Mala"

calidad_o3(o3) ==
    IF IsNa(o3) THEN None
    ELSE IF o3[1] <= O3_BUENA THEN "Buena"
    ELSE IF o3[1] <= O3_REGULAR THEN "Regular"
    ELSE "Mala"

calidad_no2(no2) ==
    IF IsNa(no2) THEN None
    ELSE IF no2[1] <= NO2_BUENA THEN "Buena"
    ELSE IF no2[1] <= NO2_REGULAR THEN "Regular"
    ELSE "Mala"

calidad_nox(nox) ==
    IF IsNa(nox) THEN None
    ELSE IF nox[1] <= NOX_BUENA THEN "Buena"
    ELSE IF nox[1] <= NOX_REGULAR THEN "Regular"
    ELSE "Mala"

\* calidad_no with a missing value read as zero.
calidad_no_cero(no) ==
    LET v == IF IsNa(no) THEN 0 ELSE no[1]
    IN IF v <= NO_BUENA THEN "Buena"
       ELSE IF v <= NO_REGULAR THEN "Regular"
       ELSE "Mala"

calidad_no(no) ==
    IF IsNa(no) THEN None
    ELSE IF no[1] <= NO_BUENA THEN "Buena"
    ELSE IF no[1] <= NO_REGULAR THEN "Regular"
    ELSE "Mala"

-----------------------------------------------------------------------------
(* evaluar_calidad_aire, lines 291-324 *)

orden(c) == CASE c = "Buena" -> 1 [] c = "Regular" -> 2 [] c = "Mala" -> 3

\* Python's max(seq, key=...): the first element whose key is maximal.
RECURSIVE MaxPorOrden(_)
MaxPorOrden(s) ==
    IF Len(s) = 1 THEN s[1]
    ELSE LET m == MaxPorOrden(Tail(s))
         IN IF orden(s[1]) >= orden(m) THEN s[1] ELSE m

\* The first element whose key is minimal.
RECURSIVE MinPorOrden(_)
MinPorOrden(s) ==
    IF Len(s) = 1 THEN s[1]
    ELSE LET m == MinPorOrden(Tail(s))
         IN IF orden(s[1]) <= orden(m) THEN s[1] ELSE m

\* row.get(col): the cell, or None when the row has no such column.
RowGet(cells, col) == IF col \in DOMAIN cells THEN cells[col] ELSE None

CalidadCols == <<"calidad_CO", "calidad_O3", "calidad_NO2", "calidad_NOx", "calidad_NO">>

\* The calidad_* columns that lines 299-308 add to a row with these cells.
ColumnasCalidad(cells) ==
    LET add(acc, src, dst, f(_)) ==
            IF src \in DOMAIN cells THEN acc @@ (dst :> f(cells[src])) ELSE acc
        a1 == add(<<>>, "CO", "calidad_CO", calidad_co)
        a2 == add(a1, "O3", "calidad_O3", calidad_o3)
        a3 == add(a2, "NO2", "calidad_NO2", calidad_no2)
        a4 == add(a3, "NOX", "calidad_NOx", calidad_nox)
        a5 == add(a4, "NO", "calidad_NO", calidad_no)
    IN a5

\* calidad_global taking the best rating instead of the worst.
calidad_global_min(row) ==
    LET calidades == SelectSeq([i \in 1..Len(CalidadCols) |-> RowGet(row, CalidadCols[i])],
                               LAMBDA c : c # None)
    IN IF calidades = <<>> THEN None ELSE MinPorOrden(calidades)

calidad_global(row) ==
    LET calidades == SelectSeq([i \in 1..Len(CalidadCols) |-> RowGet(row, CalidadCols[i])],
                               LAMBDA c : c # None)
    IN IF calidades = <<>> THEN None ELSE MaxPorOrden(calidades)

\* The frame returned: the cells kept, the quality columns and calidad_global
\* added; None for a missing or empty frame.
evaluar_calidad_aire(d) ==
    IF IsNoneDF(d) \/ IsEmptyDF(d) THEN NoneDF
    ELSE LET r == d.rows[1]
             q == ColumnasCalidad(r.cells)
         IN [kind |-> "df",
             rows |-> <<[index |-> r.index,
                         cells |-> r.cells,
                         calidad |-> q,
                         calidad_global |-> calidad_global(q)]>>]

-----------------------------------------------------------------------------
(* SpecClassify: evaluar_calidad_aire applied to every frame of the grid *)

MaxOffset == 1

Fuentes == {"SINAICA", "OPENAQ"}

\* The column a source delivers each rated pollutant under: the scraped source
\* keeps the blob key (line 153), the REST source upper-cases (line 273).
Columna(fuente, p) == IF p = "NOx" /\ fuente = "OPENAQ" THEN "NOX" ELSE p

Contaminantes == <<"CO", "O3", "NO2", "NOx", "NO">>

Limite(p, k) ==
    CASE p = "CO" -> IF k = 1 THEN CO_BUENA ELSE CO_REGULAR
      [] p = "O3" -> IF k = 1 THEN O3_BUENA ELSE O3_REGULAR
      [] p = "NO2" -> IF k = 1 THEN NO2_BUENA ELSE NO2_REGULAR
      [] p = "NOx" -> IF k = 1 THEN NOX_BUENA ELSE NOX_REGULAR
      [] p = "NO" -> IF k = 1 THEN NO_BUENA ELSE NO_REGULAR

\* What a frame can hold for one pollutant: no column, a missing value (only
\* the last row of a scraped pivot of several rows can hold one), or a value
\* at or just above a limit.
Opciones(fuente) ==
    {<<0>>} \cup (IF fuente = "SINAICA" THEN {<<1>>} ELSE {})
            \cup {<<2, k, d>> : k \in 1..2, d \in 0..MaxOffset}

CeldasDe(fuente, ch) ==
    LET presentes == {i \in 1..Len(Contaminantes) : ch[i] # <<0>>}
        celda(i) == IF ch[i] = <<1>> THEN NaN
                    ELSE Val(Limite(Contaminantes[i], ch[i][2]) + ch[i][3])
        col(c) == CHOOSE i \in presentes : Columna(fuente, Contaminantes[i]) = c
    IN [c \in {Columna(fuente, Contaminantes[i]) : i \in presentes} |-> celda(col(c))]

IdleOQ == [pc |-> "idle"]
IdleScan == [pc |-> "idle"]
IdleHtml == [conts |-> "idle", meteo |-> "idle"]
IdleAudit == [escritas |-> {}, frescas |-> {}]

InitClassify ==
    /\ \/ df \in {NoneDF, EmptyDF}
       \/ \E f \in Fuentes : \E ch \in [1..Len(Contaminantes) -> Opciones(f)] :
             df = OneRow(<<1, 0>>, CeldasDe(f, ch))
    /\ evaluado = NotRun
    /\ html = IdleHtml /\ sinaica_ret = NotRun
    /\ oq = IdleOQ /\ scan = IdleScan
    /\ cache = <<>> /\ callers = <<>> /\ now = 0 /\ audit = IdleAudit

Evaluar ==
    /\ evaluado = NotRun
    /\ evaluado' = evaluar_calidad_aire(df)
    /\ UNCHANGED <<df, html, sinaica_ret, oq, scan, cache, callers, now, audit>>

NextClassify == Evaluar

SpecClassify == InitClassify /\ [][NextClassify]_vars

\* The rating of pollutant column c in an evaluated row, None when unrated.
Rating(r, c) == RowGet(r.calidad, c)

\* C1: the overall rating is the worst known rating of CO, O3, NO2, NOx and NO
\* under Good < Moderate < Poor, and Unknown when none of them has a rating.
C1_GlobalEsLaPeor ==
    evaluado.kind = "df" =>
        LET r == evaluado.rows[1]
            conocidas == {Rating(r, CalidadCols[i]) : i \in 1..Len(CalidadCols)} \ {None}
        IN r.calidad_global =
              IF "Mala" \in conocidas THEN "Mala"
              ELSE IF "Regular" \in conocidas THEN "Regular"
              ELSE IF "Buena" \in conocidas THEN "Buena"
              ELSE None

\* The example of the specification: CO Good, O3 Poor, NO2 without rating.
C1_Witness ==
    /\ evaluado.kind = "df"
    /\ Rating(evaluado.rows[1], "calidad_CO") = "Buena"
    /\ Rating(evaluado.rows[1], "calidad_O3") = "Mala"
    /\ Rating(evaluado.rows[1], "calidad_NO2") = None
    /\ evaluado.rows[1].calidad_global = "Mala"

\* C2: every present value is rated Good up to and including the Good limit,
\* Moderate above it up to and including the Moderate limit, Poor above that,
\* with the limits CO 5.5/11, O3 0.055/0.095, NO2 0.10/0.21, NOx 0.10/0.20,
\* NO 0.05/0.15 (in 1/1000 ppm).
C2_Umbrales ==
    evaluado.kind = "df" =>
        LET r == evaluado.rows[1]
            tabla == {<<"CO", "calidad_CO", 5500, 11000>>,
                      <<"O3", "calidad_O3", 55, 95>>,
                      <<"NO2", "calidad_NO2", 100, 210>>,
                      <<"NOX", "calidad_NOx", 100, 200>>,
                      <<"NO", "calidad_NO", 50, 150>>}
        IN \A t \in tabla :
              (t[1] \in DOMAIN r.cells /\ ~IsNa(r.cells[t[1]])) =>
                  LET v == r.cells[t[1]][1]
                  IN Rating(r, t[2]) = IF v <= t[3] THEN "Buena"
                                       ELSE IF v <= t[4] THEN "Regular"
                                       ELSE "Mala"

\* Values exactly on a limit and one step above it, rated by the tier below
\* and the tier above.
C2_Witness ==
    /\ evaluado.kind = "df"
    /\ LET r == evaluado.rows[1]
       IN /\ "CO" \in DOMAIN r.cells /\ r.cells["CO"] = Val(5500)
          /\ Rating(r, "calidad_CO") = "Buena"
          /\ "NOX" \in DOMAIN r.cells /\ r.cells["NOX"] = Val(201)
          /\ Rating(r, "calidad_NOx") = "Mala"
          /\ "O3" \in DOMAIN r.cells /\ r.cells["O3"] = Val(95)
          /\ Rating(r, "calidad_O3") = "Regular"

\* The name of the rating column of pollutant p.
ColCalidad(p) ==
    CASE p = "CO" -> "calidad_CO"
      [] p = "O3" -> "calidad_O3"
      [] p = "NO2" -> "calidad_NO2"
      [] p = "NOx" -> "calidad_NOx"
      [] p = "NO" -> "calidad_NO"

\* C12: a present value of CO, O3, NO2, NOx or NO, under the column name of
\* either source ('NOx' scraped, 'NOX' from the REST source), receives the
\* rating of its pollutant by that pollutant's limits and takes part in the
\* overall rating, which is then at least as bad.
C12_NombresUnificados ==
    evaluado.kind = "df" =>
        LET r == evaluado.rows[1]
        IN \A i \in 1..Len(Contaminantes) : \A f \in Fuentes :
              LET p == Contaminantes[i]
                  c == Columna(f, p)
              IN (c \in DOMAIN r.cells /\ ~IsNa(r.cells[c])) =>
                    LET v == r.cells[c][1]
                        tier == IF v <= Limite(p, 1) THEN "Buena"
                                ELSE IF v <= Limite(p, 2) THEN "Regular"
                                ELSE "Mala"
                    IN /\ Rating(r, ColCalidad(p)) = tier
                       /\ r.calidad_global # None
                       /\ orden(r.calidad_global) >= orden(tier)

\* Pollutant p has a value in the row, under the column name of some source.
ConValor(r, p) ==
    \E f \in Fuentes : Columna(f, p) \in DOMAIN r.cells /\ ~IsNa(r.cells[Columna(f, p)])

\* C18: a pollutant whose value is absent, its column missing or its value
\* missing, is Unknown: it gets no rating (it is not rated as if it were zero)
\* and adds nothing to the overall rating, which is the rating of a pollutant
\* that has a value, and Unknown when no pollutant has one.
C18_AusenteEsDesconocido ==
    evaluado.kind = "df" =>
        LET r == evaluado.rows[1]
        IN /\ \A i \in 1..Len(Contaminantes) :
                 ~ConValor(r, Contaminantes[i]) => Rating(r, ColCalidad(Contaminantes[i])) = None
           /\ r.calidad_global # None =>
                 \E i \in 1..Len(Contaminantes) :
                    /\ ConValor(r, Contaminantes[i])
                    /\ Rating(r, ColCalidad(Contaminantes[i])) = r.calidad_global

\* A scraped row with CO rated Poor, the NO column present without a value
\* and no O3 column: NO and O3 are unrated and the overall rating is Poor.
C18_Witness ==
    /\ evaluado.kind = "df"
    /\ LET r == evaluado.rows[1]
       IN /\ "NO" \in DOMAIN r.cells /\ IsNa(r.cells["NO"])
          /\ "O3" \notin DOMAIN r.cells
          /\ "CO" \in DOMAIN r.cells /\ r.cells["CO"] = Val(CO_REGULAR + 1)
          /\ Rating(r, "calidad_NO") = None
          /\ Rating(r, "calidad_O3") = None
          /\ Rating(r, "calidad_CO") = "Mala"
          /\ r.calidad_global = "Mala"

-----------------------------------------------------------------------------
(* get_sinaica_data, lines 128-228: the body behind the cache *)

MaxRows == 2

\* A blob of the page: the regular expression did not match (Absent), the
\* text it matched is no JSON (Invalid), or an object key -> data.
Absent == [blob |-> "absent"]
Invalid == [blob |-> "invalid"]
Objeto(o) == [blob |-> "object", obj |-> o]

\* The data under a key: a list of rows, or anything else (null, no such key).
NotAList == [list |-> FALSE]
Lista(rows) == [list |-> TRUE, rows |-> rows]

\* A row of a list: an explicit null, a value that is no object, or an object
\* with its (fecha, hora) and valorAct, either of which can be null.
RowNull == [t |-> "null"]
RowBad == [t |-> "bad"]
RowDict(ts, v) == [t |-> "dict", ts |-> ts, valorAct |-> v]

ContsKeys == <<"CO", "NOx">>
MeteoKeys == <<"TMP">>

\* Lines 155-180 (and 190-216): the frame of one key, None when the data is no
\* list.  A null row becomes a row of nulls under the key, an object row is
\* kept, anything else is left out.
FilasDe(key, data) ==
    LET fila(row) == IF row.t = "null"
                     THEN [parametro |-> key, ts |-> NaN, valorAct |-> NaN]
                     ELSE [parametro |-> key, ts |-> row.ts, valorAct |-> row.valorAct]
        kept == SelectSeq(data.rows, LAMBDA row : row.t \in {"null", "dict"})
    IN [i \in 1..Len(kept) |-> fila(kept[i])]

\* The frames a present blob appends to dfs, one per key whose data is a list.
RECURSIVE FramesDe(_, _)
FramesDe(keys, obj) ==
    IF keys = <<>> THEN <<>>
    ELSE LET data == obj[Head(keys)]
             rest == FramesDe(Tail(keys), obj)
         IN IF data.list THEN <<FilasDe(Head(keys), data)>> \o rest ELSE rest

RECURSIVE Concat(_)
Concat(frames) == IF frames = <<>> THEN <<>> ELSE Head(frames) \o Concat(Tail(frames))

TsLess(a, b) == a[1] < b[1] \/ (a[1] = b[1] /\ a[2] < b[2])

RECURSIVE SumSeq(_)
SumSeq(s) == IF s = <<>> THEN 0 ELSE Head(s) + SumSeq(Tail(s))

\* pivot_table(index=[fecha, hora], columns=parametro, values=valorAct) and
\* tail(1): rows without a (fecha, hora) fall out of the grouping, groups and
\* columns without any value are dropped, a cell is the mean of its group
\* (rounded down to the grid), and the last row in index order is kept.
PivotTail(filas) ==
    LET con == SelectSeq(filas, LAMBDA r : r.ts # NaN /\ r.valorAct # NaN)
        claves == {con[i].ts : i \in 1..Len(con)}
        cols == {con[i].parametro : i \in 1..Len(con)}
        ult == CHOOSE k \in claves : \A j \in claves : j = k \/ TsLess(j, k)
        grupo(c) == SelectSeq(con, LAMBDA r : r.ts = ult /\ r.parametro = c)
        vals(c) == [i \in 1..Len(grupo(c)) |-> grupo(c)[i].valorAct[1]]
        celda(c) == IF grupo(c) = <<>> THEN NaN
                    ELSE Val(SumSeq(vals(c)) \div Len(grupo(c)))
    IN IF claves = {} THEN EmptyDF
       ELSE OneRow(ult, [c \in cols |-> celda(c)])

\* get_sinaica_data returning None as soon as the pollutant blob is missing.
get_sinaica_body_early(page) ==
    IF page.conts.blob # "object" \/ page.meteo.blob = "invalid"
    THEN [ret |-> NoneDF, error |-> page.conts.blob = "invalid" \/ page.meteo.blob = "invalid"]
    ELSE LET dfs == FramesDe(ContsKeys, page.conts.obj)
                    \o (IF page.meteo.blob = "object"
                        THEN FramesDe(MeteoKeys, page.meteo.obj) ELSE <<>>)
         IN IF dfs = <<>> THEN [ret |-> NoneDF, error |-> FALSE]
            ELSE [ret |-> PivotTail(Concat(dfs)), error |-> FALSE]

\* A list of some key read from the blob holds a row that is no object.
TieneFilaNoObjeto(b, keys) ==
    /\ b.blob = "object"
    /\ \E i \in 1..Len(keys) :
          /\ b.obj[keys[i]].list
          /\ \E j \in 1..Len(b.obj[keys[i]].rows) : b.obj[keys[i]].rows[j].t # "dict"

\* get_sinaica_data building its frames from every row as it comes: a row
\* that is no object makes the construction raise, which ends in the except
\* clause.
get_sinaica_body_estricto(page) ==
    IF page.conts.blob = "invalid" \/ page.meteo.blob = "invalid"
       \/ TieneFilaNoObjeto(page.conts, ContsKeys)
       \/ TieneFilaNoObjeto(page.meteo, MeteoKeys)
    THEN [ret |-> NoneDF, error |-> TRUE]
    ELSE LET dfs == (IF page.conts.blob = "object"
                     THEN FramesDe(ContsKeys, page.conts.obj) ELSE <<>>)
                    \o (IF page.meteo.blob = "object"
                        THEN FramesDe(MeteoKeys, page.meteo.obj) ELSE <<>>)
         IN IF dfs = <<>> THEN [ret |-> NoneDF, error |-> FALSE]
            ELSE [ret |-> PivotTail(Concat(dfs)), error |-> FALSE]

\* The value returned and whether st.error was called (line 227).  json.loads
\* raising on either blob ends in the except clause.
get_sinaica_body(page) ==
    IF page.conts.blob = "invalid" \/ page.meteo.blob = "invalid"
    THEN [ret |-> NoneDF, error |-> TRUE]
    ELSE LET dfs == (IF page.conts.blob = "object"
                     THEN FramesDe(ContsKeys, page.conts.obj) ELSE <<>>)
                    \o (IF page.meteo.blob = "object"
                        THEN FramesDe(MeteoKeys, page.meteo.obj) ELSE <<>>)
         IN IF dfs = <<>> THEN [ret |-> NoneDF, error |-> FALSE]
            ELSE [ret |-> PivotTail(Concat(dfs)), error |-> FALSE]

-----------------------------------------------------------------------------
(* SpecSinaica: the body of get_sinaica_data applied to every page *)

Marcas == {<<1, 1>>, <<2, 0>>}

FilasPosibles(v) ==
    {RowNull, RowBad} \cup {RowDict(ts, Val(v)) : ts \in Marcas} \cup {RowDict(<<2, 0>>, NaN)}

SeqHasta(S, n) == UNION {[1..k -> S] : k \in 0..n}

DatosNOx == {NotAList, Lista(<<RowDict(<<2, 0>>, Val(150))>>)}

InitSinaica ==
    /\ \E c \in {Absent, Invalid} \cup
                {Objeto([k \in {"CO", "NOx"} |-> IF k = "CO" THEN co ELSE nox]) :
                    co \in {NotAList} \cup {Lista(r) : r \in SeqHasta(FilasPosibles(4000), MaxRows)},
                    nox \in DatosNOx} :
       \E m \in {Absent, Invalid} \cup
                {Objeto([k \in {"TMP"} |-> tmp]) :
                    tmp \in {NotAList} \cup {Lista(r) : r \in SeqHasta(FilasPosibles(20), MaxRows)}} :
          html = [conts |-> c, meteo |-> m]
    /\ sinaica_ret = NotRun
    /\ df = NoneDF /\ evaluado = NotRun
    /\ oq = IdleOQ /\ scan = IdleScan
    /\ cache = <<>> /\ callers = <<>> /\ now = 0 /\ audit = IdleAudit

FetchSinaica ==
    /\ sinaica_ret = NotRun
    /\ sinaica_ret' = get_sinaica_body(html)
    /\ UNCHANGED <<df, evaluado, html, oq, scan, cache, callers, now, audit>>

NextSinaica == FetchSinaica

SpecSinaica == InitSinaica /\ [][NextSinaica]_vars

\* A blob has a usable row: an object row with a (fecha, hora) and a value,
\* in the list of one of the keys read.
Usable(b, keys) ==
    /\ b.blob = "object"
    /\ \E i \in 1..Len(keys) :
          /\ b.obj[keys[i]].list
          /\ \E j \in 1..Len(b.obj[keys[i]].rows) :
                LET row == b.obj[keys[i]].rows[j]
                IN row.t = "dict" /\ row.ts # NaN /\ row.valorAct # NaN

ColsDe(keys) == {keys[i] : i \in 1..Len(keys)}

\* C10: the two blobs are extracted independently.  With the pollutant blob
\* absent and usable meteorological rows the fetch returns a row of
\* meteorological fields only, and symmetrically; a fetch that ends without a
\* row and without an error had both blobs absent or no usable row.
C10_BlobsIndependientes ==
    sinaica_ret # NotRun =>
        /\ (html.conts = Absent /\ Usable(html.meteo, MeteoKeys)) =>
              /\ HasData(sinaica_ret.ret)
              /\ DOMAIN sinaica_ret.ret.rows[1].cells \subseteq ColsDe(MeteoKeys)
              /\ DOMAIN sinaica_ret.ret.rows[1].cells # {}
        /\ (html.meteo = Absent /\ Usable(html.conts, ContsKeys)) =>
              /\ HasData(sinaica_ret.ret)
              /\ DOMAIN sinaica_ret.ret.rows[1].cells \subseteq ColsDe(ContsKeys)
              /\ DOMAIN sinaica_ret.ret.rows[1].cells # {}
        /\ (~HasData(sinaica_ret.ret) /\ ~sinaica_ret.error) =>
              \/ (html.conts = Absent /\ html.meteo = Absent)
              \/ (~Usable(html.conts, ContsKeys) /\ ~Usable(html.meteo, MeteoKeys))

\* A page without the pollutant blob whose fetch returned a row holding the
\* temperature and nothing else.
C10_Witness ==
    /\ sinaica_ret # NotRun
    /\ html.conts = Absent
    /\ HasData(sinaica_ret.ret)
    /\ DOMAIN sinaica_ret.ret.rows[1].cells = {"TMP"}
    /\ sinaica_ret.ret.rows[1].cells["TMP"] = Val(20)

\* The blob with the null rows and the rows that are no object taken out of
\* every list.
SoloObjetos(b) ==
    IF b.blob # "object" THEN b
    ELSE Objeto([k \in DOMAIN b.obj |->
                    IF b.obj[k].list
                    THEN Lista(SelectSeq(b.obj[k].rows, LAMBDA row : row.t = "dict"))
                    ELSE b.obj[k]])

\* C11: null rows and rows that are no object are skipped.  They never make
\* the parse fail (an error needs a blob that is no JSON), the row returned
\* is keyed by the (fecha, hora) of an object row, and the result is the
\* result of parsing the page with those rows taken out.
C11_FilasNulasOmitidas ==
    sinaica_ret # NotRun =>
        /\ sinaica_ret.error => (html.conts = Invalid \/ html.meteo = Invalid)
        /\ sinaica_ret = get_sinaica_body([conts |-> SoloObjetos(html.conts),
                                           meteo |-> SoloObjetos(html.meteo)])
        /\ HasData(sinaica_ret.ret) =>
              \E i \in 1..Len(ContsKeys) + Len(MeteoKeys) :
                 LET enConts == i <= Len(ContsKeys)
                     b == IF enConts THEN html.conts ELSE html.meteo
                     key == IF enConts THEN ContsKeys[i] ELSE MeteoKeys[i - Len(ContsKeys)]
                 IN /\ b.blob = "object" /\ b.obj[key].list
                    /\ \E j \in 1..Len(b.obj[key].rows) :
                          /\ b.obj[key].rows[j].t = "dict"
                          /\ b.obj[key].rows[j].ts = sinaica_ret.ret.rows[1].index

\* A CO list with a null row before an object row, and a temperature list with
\* a row that is no object before an object row: the fetch returned the row of
\* the two object rows.
C11_Witness ==
    /\ sinaica_ret # NotRun
    /\ html.conts.blob = "object" /\ html.conts.obj["CO"].list
    /\ html.conts.obj["CO"].rows = <<RowNull, RowDict(<<2, 0>>, Val(4000))>>
    /\ ~html.conts.obj["NOx"].list
    /\ html.meteo.blob = "object" /\ html.meteo.obj["TMP"].list
    /\ html.meteo.obj["TMP"].rows = <<RowBad, RowDict(<<2, 0>>, Val(20))>>
    /\ ~sinaica_ret.error
    /\ HasData(sinaica_ret.ret)
    /\ sinaica_ret.ret.rows[1].index = <<2, 0>>
    /\ sinaica_ret.ret.rows[1].cells = [c \in {"CO", "TMP"} |->
                                          IF c = "CO" THEN Val(4000) ELSE Val(20)]

-----------------------------------------------------------------------------
(* get_openaq_data, lines 232-288: the body behind the cache *)

MaxSensors == 2

INTER_CALL_DELAY_MS == 200

API_KEYS == <<"934a33cfc397140c9f15c38a528f79384b5d180f31cb344dc217840f3a7cff93",
              "23a0b5d725eaf67585d9c4b3d8e1fcd02cd10c0ae4cbaf47cade3de6de27d0cc">>

\* The parameter each sensor of a location reports, as the API names it, and
\* the value it reports when it has one.
SensorParams == <<"co", "nox", "o3", "no2", "no">>
SensorValor == <<4000, 150, 100, 90, 40>>

\* str.upper() on the parameter names (line 273).
Upper(name) ==
    CASE name = "co" -> "CO" [] name = "nox" -> "NOX" [] name = "o3" -> "O3"
      [] name = "no2" -> "NO2" [] name = "no" -> "NO"

\* Lines 269-285: of the rows of the sensors that answered, those of the
\* latest fecha and, within it, the latest hora, pivoted into one wide row.
LatestWide(dfs) ==
    LET filas == [i \in 1..Len(dfs) |->
                     [parametro |-> Upper(dfs[i].parametro),
                      ts |-> dfs[i].ts, valorAct |-> dfs[i].valorAct]]
        fechas == {filas[i].ts[1] : i \in 1..Len(filas)}
        fecha_max == CHOOSE f \in fechas : \A g \in fechas : g <= f
        horas == {filas[i].ts[2] : i \in {j \in 1..Len(filas) : filas[j].ts[1] = fecha_max}}
        hora_max == CHOOSE h \in horas : \A g \in horas : g <= h
        df_ult == SelectSeq(filas, LAMBDA r : r.ts = <<fecha_max, hora_max>>)
    IN PivotTail(df_ult)

\* What the upstream can answer to the listing call and to a sensor call.
\* Every answer but "ok" raises inside the try block: raise_for_status
\* (http_error), requests' timeout, or a payload without the fields read.
ListingAnswers == {"ok", "http_error", "timeout", "no_results"}
SensorAnswers == {"ok", "http_error", "timeout", "no_latest"}

OQStart(key) ==
    [pc |-> "listing", api_key |-> key, sensors |-> <<>>, i |-> 1, dfs |-> <<>>,
     answers |-> <<>>, calls |-> <<>>, t |-> 0, ret |-> NotRun, error |-> FALSE]

\* Line 286-288: any exception ends the call with None and an st.error.
OQRaise(o, ans, call) ==
    [o EXCEPT !.pc = "done", !.ret = NoneDF, !.error = TRUE,
              !.answers = Append(@, ans), !.calls = Append(@, call)]

\* Lines 238-241: the listing call.
OQListing ==
    /\ oq.pc = "listing"
    /\ \E ans \in ListingAnswers, n \in 0..MaxSensors :
          LET call == [what |-> "listing", key |-> oq.api_key, at |-> oq.t]
          IN IF ans = "ok"
             THEN oq' = [oq EXCEPT !.pc = IF n = 0 THEN "build" ELSE "sensor",
                                   !.sensors = [k \in 1..n |-> k],
                                   !.calls = Append(@, call)]
             ELSE n = 0 /\ oq' = OQRaise(oq, ans, call)
    /\ UNCHANGED <<df, evaluado, html, sinaica_ret, scan, cache, callers, now, audit>>

\* Lines 245-263: the call for sensor i and its row.
OQSensor ==
    /\ oq.pc = "sensor"
    /\ \E ans \in SensorAnswers, ts \in Marcas, has \in BOOLEAN :
          LET id == oq.sensors[oq.i]
              call == [what |-> "sensor", key |-> oq.api_key, at |-> oq.t]
              row == [parametro |-> SensorParams[id], ts |-> ts,
                      valorAct |-> IF has THEN Val(SensorValor[id]) ELSE NaN]
          IN IF ans = "ok"
             THEN oq' = [oq EXCEPT !.pc = "sleep", !.dfs = Append(@, row),
                                   !.answers = Append(@, ans),
                                   !.calls = Append(@, call)]
             ELSE /\ ts = <<1, 1>> /\ has
                  /\ oq' = OQRaise(oq, ans, call)
    /\ UNCHANGED <<df, evaluado, html, sinaica_ret, scan, cache, callers, now, audit>>

\* Line 264, and the loop's next iteration or its end.
OQSleep ==
    /\ oq.pc = "sleep"
    /\ oq' = [oq EXCEPT !.t = @ + INTER_CALL_DELAY_MS,
                        !.i = @ + 1,
                        !.pc = IF oq.i < Len(oq.sensors) THEN "sensor" ELSE "build"]
    /\ UNCHANGED <<df, evaluado, html, sinaica_ret, scan, cache, callers, now, audit>>

\* Lines 266-285.
OQBuild ==
    /\ oq.pc = "build"
    /\ oq' = [oq EXCEPT !.pc = "done",
                        !.ret = IF oq.dfs = <<>> THEN NoneDF ELSE LatestWide(oq.dfs)]
    /\ UNCHANGED <<df, evaluado, html, sinaica_ret, scan, cache, callers, now, audit>>

InitOpenAQ ==
    /\ \E k \in 1..Len(API_KEYS) : oq = OQStart(API_KEYS[k])
    /\ df = NoneDF /\ evaluado = NotRun
    /\ html = IdleHtml /\ sinaica_ret = NotRun
    /\ scan = IdleScan
    /\ cache = <<>> /\ callers = <<>> /\ now = 0 /\ audit = IdleAudit

NextOpenAQ == OQListing \/ OQSensor \/ OQSleep \/ OQBuild

SpecOpenAQ == InitOpenAQ /\ [][NextOpenAQ]_vars

\* C6: with the listing call answered, a sensor whose call fails with an HTTP
\* error does not cost the fetch the value of a sensor that answered: the fetch
\* returns a row holding that sensor's pollutant.
C6_SensorFailureNotFatal ==
    (/\ oq.pc = "done"
     /\ \E i \in 1..Len(oq.answers) : oq.answers[i] = "http_error"
     /\ \E i \in 1..Len(oq.dfs) : oq.dfs[i].valorAct # NaN)
    => /\ HasData(oq.ret)
       /\ \E i \in 1..Len(oq.dfs) :
             /\ oq.dfs[i].valorAct # NaN
             /\ Upper(oq.dfs[i].parametro) \in DOMAIN oq.ret.rows[1].cells

\* C13: within one fetch, between any two consecutive upstream calls made
\* with the same credential, the listing call and the sensor calls alike, at
\* least the minimum delay of 200 ms is waited.
C13_RetardoEntreLlamadas ==
    oq.pc # "idle" =>
        \A i \in 1..Len(oq.calls) - 1 :
            oq.calls[i].key = oq.calls[i + 1].key =>
                oq.calls[i + 1].at - oq.calls[i].at >= INTER_CALL_DELAY_MS

\* What the code does keep: the delay between one sensor call and the next.
RetardoEntreSensores ==
    oq.pc # "idle" =>
        \A i \in 1..Len(oq.calls) - 1 :
            (oq.calls[i].what = "sensor" /\ oq.calls[i + 1].what = "sensor") =>
                oq.calls[i + 1].at - oq.calls[i].at >= INTER_CALL_DELAY_MS

\* The sensors of a fetch that reported data: the rows with a value.
ConDatos(o) == {i \in 1..Len(o.dfs) : o.dfs[i].valorAct # NaN}

\* The latest (fecha, hora) among the rows ids of a fetch.
MasReciente(o, ids) ==
    CHOOSE k \in {o.dfs[i].ts : i \in ids} :
        \A i \in ids : o.dfs[i].ts = k \/ TsLess(o.dfs[i].ts, k)

\* The fetch returned the one wide row of the rows ids at their latest
\* (fecha, hora): exactly their values, nothing of an older row.
EsFilaDe(o, ids) ==
    LET ult == MasReciente(o, ids)
        deUlt == {i \in ids : o.dfs[i].ts = ult}
    IN /\ HasData(o.ret)
       /\ Len(o.ret.rows) = 1
       /\ o.ret.rows[1].index = ult
       /\ DOMAIN o.ret.rows[1].cells = {Upper(o.dfs[i].parametro) : i \in deUlt}
       /\ \A i \in deUlt :
             o.ret.rows[1].cells[Upper(o.dfs[i].parametro)] = o.dfs[i].valorAct

\* C17: a fetch whose calls were all answered returns one wide row for the
\* most recent (fecha, hora) among the sensors that reported data: the row is
\* keyed by their maximum, holds exactly the values of the sensors reporting
\* at that (fecha, hora) and nothing of a sensor reporting an older one; with
\* one sensor reporting data the row holds that sensor's value.
C17_FilaMasReciente ==
    (oq.pc = "done" /\ ~oq.error /\ ConDatos(oq) # {}) => EsFilaDe(oq, ConDatos(oq))

\* What the code does keep: when every sensor that answered did so with a
\* value, the row is that of the latest (fecha, hora).
FilaMasRecienteConValores ==
    (/\ oq.pc = "done" /\ ~oq.error /\ oq.dfs # <<>>
     /\ ConDatos(oq) = 1..Len(oq.dfs))
    => EsFilaDe(oq, ConDatos(oq))

-----------------------------------------------------------------------------
(* The scan, lines 526-633 *)

\* The first stations of the registry (lines 330-333), in its order, their
\* names in ASCII.
ESTACIONES ==
    <<[nombre |-> "Ajusco Medio", sinaica |-> 242, openaq |-> 480393],
      [nombre |-> "Benito Juarez", sinaica |-> 300, openaq |-> 10860],
      [nombre |-> "Camarones", sinaica |-> 244, openaq |-> 10722]>>

Nombres == {ESTACIONES[i].nombre : i \in 1..Len(ESTACIONES)}

\* The selections of the multiselect: the stations kept, in registry order.
Selecciones ==
    {sel \in SeqHasta(Nombres, Len(ESTACIONES)) :
        \E f \in [1..Len(sel) -> 1..Len(ESTACIONES)] :
            /\ \A i \in 1..Len(sel) : ESTACIONES[f[i]].nombre = sel[i]
            /\ \A i \in 1..Len(sel) : \A j \in 1..Len(sel) : i < j => f[i] < f[j]}

\* What a call of a cached fetch function can come to.  The fetch functions
\* turn every exception of their body into None and an st.error without the
\* station (timeout, http_error, parse_error); "empty" is the None of
\* 'if not dfs'; "empty_df" a frame without rows; "raise" an exception that
\* leaves the call itself; "ok" a frame with a row.
SinaicaRows ==
    {OneRow(<<2, 0>>, [c \in {"TMP"} |-> Val(20)]),
     OneRow(<<2, 0>>, [c \in {"CO", "O3"} |-> IF c = "CO" THEN Val(4000) ELSE Val(100)])}
OpenAQRows ==
    {OneRow(<<2, 0>>, [c \in {"CO"} |-> Val(4000)]),
     OneRow(<<2, 0>>, [c \in {"PM10"} |-> Val(30)])}

SinaicaOutcomes ==
    {[kind |-> k, ret |-> NoneDF] : k \in {"timeout", "parse_error", "empty", "raise"}}
    \cup {[kind |-> "empty_df", ret |-> EmptyDF]}
    \cup {[kind |-> "ok", ret |-> r] : r \in SinaicaRows}
OpenAQOutcomes ==
    {[kind |-> k, ret |-> NoneDF] : k \in {"timeout", "http_error", "empty", "raise"}}
    \cup {[kind |-> "ok", ret |-> r] : r \in OpenAQRows}

Diag(nivel, fuente, estacion, donde) ==
    [nivel |-> nivel, fuente |-> fuente, estacion |-> estacion, donde |-> donde]

\* The st.error of the except clause of a fetch function (lines 227, 287): it
\* names the source and the exception, not the station.
DiagsFetch(fuente, out) ==
    IF out.kind \in {"timeout", "http_error", "parse_error"}
    THEN <<Diag("error", fuente, None, "fetch")>> ELSE <<>>

\* Lines 562-571 (608-617): the columns of the evaluated row kept for the map.
Valores(r) ==
    [c \in {x \in DOMAIN r.cells : ~IsNa(r.cells[x])} |-> r.cells[c]]
    @@ [c \in {x \in DOMAIN r.calidad : r.calidad[x] # None} |-> r.calidad[c]]
    @@ (IF r.calidad_global # None
        THEN [c \in {"calidad_global"} |-> r.calidad_global] ELSE <<>>)

Entrada(fuente, r) ==
    [calidad_global |-> r.calidad_global, fuente |-> fuente, valores |-> Valores(r)]

\* The SINAICA entry stored only over an entry of the other source.
GuardarSinaica_invertido(mapa, estacion, r) ==
    IF estacion \in DOMAIN mapa /\ mapa[estacion].fuente # "SINAICA"
    THEN [e \in DOMAIN mapa \cup {estacion} |->
             IF e = estacion THEN Entrada("SINAICA", r) ELSE mapa[e]]
    ELSE mapa

\* Lines 549-577.
GuardarSinaica(mapa, estacion, r) ==
    IF estacion \notin DOMAIN mapa \/ mapa[estacion].fuente # "SINAICA"
    THEN [e \in DOMAIN mapa \cup {estacion} |->
             IF e = estacion THEN Entrada("SINAICA", r) ELSE mapa[e]]
    ELSE mapa

\* The OpenAQ entry stored over whatever the station has.
GuardarOpenAQ_siempre(mapa, estacion, r) ==
    [e \in DOMAIN mapa \cup {estacion} |->
        IF e = estacion THEN Entrada("OPENAQ", r) ELSE mapa[e]]

\* Lines 598-623.
GuardarOpenAQ(mapa, estacion, r) ==
    IF estacion \notin DOMAIN mapa
    THEN [e \in DOMAIN mapa \cup {estacion} |->
             IF e = estacion THEN Entrada("OPENAQ", r) ELSE mapa[e]]
    ELSE mapa

Resultado(fuente, estacion, r) == [fuente |-> fuente, estacion |-> estacion, row |-> r]

Intento(estacion, fuente, out, key) ==
    [estacion |-> estacion, fuente |-> fuente, kind |-> out.kind, ret |-> out.ret,
     api_key |-> key]

\* The SINAICA block without its try: an exception ends the run.
SinaicaBlock_sin_try(s, out) ==
    LET estacion == s.estaciones_seleccionadas[s.idx + 1]
        base == [s EXCEPT !.pc = "openaq",
                          !.intentos = Append(@, Intento(estacion, "SINAICA", out, None)),
                          !.diags = @ \o DiagsFetch("SINAICA", out)]
    IN IF out.kind = "raise" THEN [base EXCEPT !.pc = "done"]
       ELSE IF HasData(out.ret)
       THEN LET r == evaluar_calidad_aire(out.ret).rows[1]
            IN [base EXCEPT !.resultados = Append(@, Resultado("SINAICA", estacion, r)),
                            !.datos_para_mapa = GuardarSinaica(@, estacion, r)]
       ELSE base

\* Lines 538-583 for the station at idx, the call having come to out.
SinaicaBlock(s, out) ==
    LET estacion == s.estaciones_seleccionadas[s.idx + 1]
        base == [s EXCEPT !.pc = "openaq",
                          !.intentos = Append(@, Intento(estacion, "SINAICA", out, None)),
                          !.diags = @ \o DiagsFetch("SINAICA", out)]
    IN IF out.kind = "raise"
       THEN [base EXCEPT !.diags = Append(@, Diag("error", "SINAICA", estacion, "scan"))]
       ELSE IF HasData(out.ret)
       THEN LET r == evaluar_calidad_aire(out.ret).rows[1]
            IN [base EXCEPT !.resultados = Append(@, Resultado("SINAICA", estacion, r)),
                            !.datos_para_mapa = GuardarSinaica(@, estacion, r)]
       ELSE base

\* The first credential of the pool whatever the position.
ApiKeyDe_fija(idx) == API_KEYS[1]

\* Line 589: API_KEYS[idx % len(API_KEYS)], idx the position of the station
\* in the selection (sequences count from 1).
ApiKeyDe(idx) == API_KEYS[(idx % Len(API_KEYS)) + 1]

\* Lines 586-629 for the station at idx, the call having come to out.
OpenAQBlock(s, out) ==
    LET estacion == s.estaciones_seleccionadas[s.idx + 1]
        api_key == ApiKeyDe(s.idx)
        base == [s EXCEPT !.pc = "progress",
                          !.intentos = Append(@, Intento(estacion, "OPENAQ", out, api_key)),
                          !.diags = @ \o DiagsFetch("OPENAQ", out)]
    IN IF out.kind = "raise"
       THEN [base EXCEPT !.diags = Append(@, Diag("error", "OPENAQ", estacion, "scan"))]
       ELSE IF HasData(out.ret)
       THEN LET r == evaluar_calidad_aire(out.ret).rows[1]
            IN [base EXCEPT !.resultados = Append(@, Resultado("OPENAQ", estacion, r)),
                            !.datos_para_mapa = GuardarOpenAQ(@, estacion, r)]
       ELSE base

ScanVars == <<df, evaluado, html, sinaica_ret, oq, cache, callers, now, audit>>

\* Lines 520-532: the button starts the run, with its outputs empty.
Obtener ==
    /\ scan.pc = "idle"
    /\ scan' = [scan EXCEPT !.pc = "loop", !.idx = 0, !.resultados = <<>>,
                            !.datos_para_mapa = <<>>]
    /\ UNCHANGED ScanVars

\* Line 534: the next station, or the end of the loop (line 633).
LoopHead ==
    /\ scan.pc = "loop"
    /\ scan' = [scan EXCEPT !.pc = IF scan.idx < Len(scan.estaciones_seleccionadas)
                                   THEN "sinaica" ELSE "done"]
    /\ UNCHANGED ScanVars

ScanSinaica ==
    /\ scan.pc = "sinaica"
    /\ IF scan.fuente_seleccionada \in {"Ambas", "SINAICA"}
       THEN \E out \in SinaicaOutcomes : scan' = SinaicaBlock(scan, out)
       ELSE scan' = [scan EXCEPT !.pc = "openaq"]
    /\ UNCHANGED ScanVars

ScanOpenAQ ==
    /\ scan.pc = "openaq"
    /\ IF scan.fuente_seleccionada \in {"Ambas", "OpenAQ"}
       THEN \E out \in OpenAQOutcomes : scan' = OpenAQBlock(scan, out)
       ELSE scan' = [scan EXCEPT !.pc = "progress"]
    /\ UNCHANGED ScanVars

\* Line 631.
ScanProgress ==
    /\ scan.pc = "progress"
    /\ scan' = [scan EXCEPT !.pc = "loop", !.idx = @ + 1]
    /\ UNCHANGED ScanVars

InitScan ==
    /\ \E f \in {"Ambas", "SINAICA", "OpenAQ"}, sel \in Selecciones :
          scan = [pc |-> "idle", fuente_seleccionada |-> f,
                  estaciones_seleccionadas |-> sel, idx |-> 0,
                  resultados |-> <<>>, datos_para_mapa |-> <<>>,
                  diags |-> <<>>, intentos |-> <<>>]
    /\ df = NoneDF /\ evaluado = NotRun
    /\ html = IdleHtml /\ sinaica_ret = NotRun
    /\ oq = IdleOQ
    /\ cache = <<>> /\ callers = <<>> /\ now = 0 /\ audit = IdleAudit

NextScan == Obtener \/ LoopHead \/ ScanSinaica \/ ScanOpenAQ \/ ScanProgress

SpecScan == InitScan /\ [][NextScan]_vars


\* crear_mapa, lines 401-409: what the map shows for a station.
CalidadEnMapa(mapa, estacion) ==
    IF estacion \in DOMAIN mapa THEN mapa[estacion].calidad_global ELSE None
FuenteEnMapa(mapa, estacion) ==
    IF estacion \in DOMAIN mapa THEN mapa[estacion].fuente ELSE "Sin datos"

\* The sources the run asks for, in the order of lines 538 and 586.
FuentesPedidas(f) ==
    CASE f = "Ambas" -> <<"SINAICA", "OPENAQ">>
      [] f = "SINAICA" -> <<"SINAICA">>
      [] f = "OpenAQ" -> <<"OPENAQ">>

Seleccionadas == {scan.estaciones_seleccionadas[i] : i \in 1..Len(scan.estaciones_seleccionadas)}

\* The attempts of the run for a station that returned a frame with a row.
IntentosOk(e) ==
    {i \in 1..Len(scan.intentos) : scan.intentos[i].estacion = e /\ scan.intentos[i].kind = "ok"}
IntentosDe(e) == {i \in 1..Len(scan.intentos) : scan.intentos[i].estacion = e}
Primero(S) == CHOOSE i \in S : \A j \in S : i <= j

\* C3: the entry of a station in datos_para_mapa is the result of the first
\* source, SINAICA before OpenAQ, that returned a frame with a row; a station
\* without such a source has no entry, and a later source never replaces the
\* entry of an earlier one.
C3_PrimarioPrimeraFuente ==
    scan.pc # "idle" =>
        \A e \in Nombres :
            /\ \A i \in IntentosDe(e) : \A j \in IntentosDe(e) :
                  i < j => scan.intentos[i].fuente = "SINAICA" /\ scan.intentos[j].fuente = "OPENAQ"
            /\ IF IntentosOk(e) = {}
               THEN e \notin DOMAIN scan.datos_para_mapa
               ELSE LET a == scan.intentos[Primero(IntentosOk(e))]
                    IN /\ e \in DOMAIN scan.datos_para_mapa
                       /\ scan.datos_para_mapa[e].fuente = a.fuente
                       /\ scan.datos_para_mapa[e].calidad_global
                             = evaluar_calidad_aire(a.ret).rows[1].calidad_global

\* A finished run with a station whose SINAICA fetch failed and whose OpenAQ
\* fetch is its entry, and a station both of whose fetches returned a row and
\* whose entry is the SINAICA one.
C3_Witness ==
    /\ scan.pc = "done"
    /\ \E e \in Seleccionadas :
          /\ \E i \in IntentosDe(e) :
                scan.intentos[i].fuente = "SINAICA" /\ scan.intentos[i].kind = "timeout"
          /\ \E i \in IntentosOk(e) : scan.intentos[i].fuente = "OPENAQ"
          /\ FuenteEnMapa(scan.datos_para_mapa, e) = "OPENAQ"
    /\ \E e \in Seleccionadas :
          /\ Cardinality(IntentosOk(e)) = 2
          /\ FuenteEnMapa(scan.datos_para_mapa, e) = "SINAICA"
          /\ CalidadEnMapa(scan.datos_para_mapa, e) = "Mala"

\* C4 as claimed: after a scan a selected station is without overall rating
\* (shown as 'Sin datos') only if every source requested for it failed or
\* returned nothing.
C4_SinCalidadSoloSiTodasFallan ==
    scan.pc = "done" =>
        \A e \in Seleccionadas :
            CalidadEnMapa(scan.datos_para_mapa, e) = None => IntentosOk(e) = {}

\* C4 as amended: after a scan a selected station is without a map entry
\* (source 'Sin datos') only if every source requested for it failed or
\* returned nothing, and has an entry whenever a requested source returned a
\* frame with a row; its overall rating is then that of the primary row, which
\* is absent when no pollutant of that row was rated.
C4_SinEntradaSoloSiTodasFallan ==
    scan.pc = "done" =>
        \A e \in Seleccionadas :
            /\ FuenteEnMapa(scan.datos_para_mapa, e) = "Sin datos" => IntentosOk(e) = {}
            /\ IntentosOk(e) # {} =>
                  /\ FuenteEnMapa(scan.datos_para_mapa, e) \in {"SINAICA", "OPENAQ"}
                  /\ (CalidadEnMapa(scan.datos_para_mapa, e) = None =>
                         \A c \in DOMAIN scan.datos_para_mapa[e].valores :
                             c \notin {CalidadCols[i] : i \in 1..Len(CalidadCols)})

\* A finished run with a station all of whose fetches failed, without entry,
\* and a station whose primary row holds the temperature alone: an entry, and
\* no overall rating.
C4_Witness ==
    /\ scan.pc = "done"
    /\ scan.fuente_seleccionada = "Ambas"
    /\ \E e \in Seleccionadas :
          /\ IntentosOk(e) = {}
          /\ FuenteEnMapa(scan.datos_para_mapa, e) = "Sin datos"
    /\ \E e \in Seleccionadas :
          /\ IntentosOk(e) # {}
          /\ FuenteEnMapa(scan.datos_para_mapa, e) = "SINAICA"
          /\ CalidadEnMapa(scan.datos_para_mapa, e) = None

\* The station/source pairs a run is to attempt, in order.
RECURSIVE Esperados(_, _)
Esperados(sel, f) ==
    IF sel = <<>> THEN <<>>
    ELSE [i \in 1..Len(FuentesPedidas(f)) |-> <<Head(sel), FuentesPedidas(f)[i]>>]
         \o Esperados(Tail(sel), f)

Pares == [i \in 1..Len(scan.intentos) |-> <<scan.intentos[i].estacion, scan.intentos[i].fuente>>]

\* C5: a fetch that fails, returns nothing or raises stops nothing but
\* itself: the pairs attempted so far are the first of the pairs to attempt,
\* the run can always go on until the loop has ended, and at the end of the
\* loop every selected station/source pair has been attempted.
C5_FallaAislada ==
    LET esperados == Esperados(scan.estaciones_seleccionadas, scan.fuente_seleccionada)
    IN /\ Len(Pares) <= Len(esperados)
       /\ \A i \in 1..Len(Pares) : Pares[i] = esperados[i]
       /\ scan.pc = "done" => Pares = esperados
       /\ scan.pc # "done" => ENABLED NextScan

\* A finished run in which a fetch raised, another timed out, and a fetch
\* after both returned a row.
C5_Witness ==
    /\ scan.pc = "done"
    /\ \E i \in 1..Len(scan.intentos) : \E j \in 1..Len(scan.intentos) :
          \E k \in 1..Len(scan.intentos) :
             /\ i < k /\ j < k
             /\ scan.intentos[i].kind = "raise"
             /\ scan.intentos[j].kind = "timeout"
             /\ scan.intentos[k].kind = "ok"
             /\ scan.intentos[i].estacion # scan.intentos[k].estacion


-----------------------------------------------------------------------------
(* The cache of the two fetch functions, lines 127, 231 and 512-515 *)

\* st.cache_data keeps one entry per function and argument values for ttl
\* seconds, lets one thread at a time compute the value of a key (the others
\* wait for it and then read the entry), and stores whatever the function
\* returns, None included.  Every browser session runs the script in a thread
\* of its own and all of them share the cache.

TTL == 600
TickSeconds == 300
MaxTicks == 2

Sessions == {"s1", "s2"}

\* The station whose fetches are followed, by its place in the registry.  A
\* station at place j stands at position 0..j-1 of a selection.
EstacionesCache == {2}

SinaicaKey(estId) == <<"get_sinaica_data", estId>>
OpenAQKey(estId, api_key) == <<"get_openaq_data", estId, api_key>>

\* The key of the specification: the source and the provider station id.
SpecKey(k) == <<k[1], k[2]>>

\* The values a run of a function body can return for a key.
Retornos(k) ==
    {NoneDF} \cup (IF k[1] = "get_sinaica_data" THEN SinaicaRows ELSE OpenAQRows)

Fresh(c, k, t) == k \in DOMAIN c /\ t < c[k].written + TTL

Computing(k) == {s \in Sessions : callers[s].pc = "computing" /\ callers[s].key = k}

Idle == [pc |-> "idle"]

CacheVars == <<df, evaluado, html, sinaica_ret, oq, scan>>

\* A call of a cached function: the entry when there is a live one, else the
\* body is run under the key's lock, or the lock is waited for.
Llamar(s, k) ==
    /\ callers[s].pc = "idle"
    /\ callers' = [callers EXCEPT ![s] =
          IF Fresh(cache, k, now)
          THEN [pc |-> "returned", key |-> k, ret |-> cache[k].value, hit |-> TRUE]
          ELSE IF Computing(k) = {}
          THEN [pc |-> "computing", key |-> k]
          ELSE [pc |-> "waiting", key |-> k]]
    /\ UNCHANGED <<cache, now, audit>>
    /\ UNCHANGED CacheVars

\* Line 541.
CallSinaica ==
    \E s \in Sessions, j \in EstacionesCache :
        Llamar(s, SinaicaKey(ESTACIONES[j].sinaica))

\* Lines 589-590: the credential follows the position idx of the station in
\* the session's selection.
CallOpenAQ ==
    \E s \in Sessions, j \in EstacionesCache : \E idx \in 0..(j - 1) :
        Llamar(s, OpenAQKey(ESTACIONES[j].openaq, API_KEYS[(idx % Len(API_KEYS)) + 1]))

\* The lock of the key has come free: the entry is looked up again.
Acquire ==
    \E s \in Sessions :
        /\ callers[s].pc = "waiting"
        /\ Computing(callers[s].key) = {}
        /\ callers' = [callers EXCEPT ![s] =
              IF Fresh(cache, callers[s].key, now)
              THEN [pc |-> "returned", key |-> callers[s].key,
                    ret |-> cache[callers[s].key].value, hit |-> TRUE]
              ELSE [pc |-> "computing", key |-> callers[s].key]]
        /\ UNCHANGED <<cache, now, audit>>
        /\ UNCHANGED CacheVars

\* A cache that stores the frames a body returns and leaves None out.
CacheTrasEscribir_sin_None(c, key, v, t) ==
    IF v = NoneDF THEN c
    ELSE [k \in DOMAIN c \cup {key} |->
             IF k = key THEN [value |-> v, written |-> t] ELSE c[k]]

\* Lines 127 and 231: st.cache_data stores whatever the body returns, None
\* as well, under the key and with the time of writing.
CacheTrasEscribir(c, key, v, t) ==
    [k \in DOMAIN c \cup {key} |->
        IF k = key THEN [value |-> v, written |-> t] ELSE c[k]]

\* The body returns: its value is stored under the key and handed back.
Return ==
    \E s \in Sessions :
        /\ callers[s].pc = "computing"
        /\ \E v \in Retornos(callers[s].key) :
              /\ cache' = CacheTrasEscribir(cache, callers[s].key, v, now)
              /\ callers' = [callers EXCEPT ![s] =
                    [pc |-> "returned", key |-> callers[s].key, ret |-> v, hit |-> FALSE]]
        /\ audit' = [audit EXCEPT !.escritas = @ \cup {callers[s].key},
                                  !.frescas = @ \ {callers[s].key}]
        /\ UNCHANGED now
        /\ UNCHANGED CacheVars

\* The script goes on with the value.
Seguir ==
    \E s \in Sessions :
        /\ callers[s].pc = "returned"
        /\ callers' = [callers EXCEPT ![s] = Idle]
        /\ UNCHANGED <<cache, now, audit>>
        /\ UNCHANGED CacheVars

\* get_sinaica_data.clear(): the entries of the other function stay.
CacheTrasLimpiar_solo_sinaica(c) ==
    [k \in {x \in DOMAIN c : x[1] # "get_sinaica_data"} |-> c[k]]

\* Line 513: st.cache_data.clear() empties the cache of every function.
CacheTrasLimpiar(c) == <<>>

\* Lines 512-515, by a session whose script is not inside a fetch.
LimpiarCache ==
    \E s \in Sessions :
        /\ callers[s].pc = "idle"
        /\ cache' = CacheTrasLimpiar(cache)
        /\ audit' = [audit EXCEPT !.escritas = {},
                                  !.frescas = {k \in DOMAIN cache : Fresh(cache, k, now)}]
        /\ UNCHANGED <<callers, now>>
        /\ UNCHANGED CacheVars

Tick ==
    /\ now + TickSeconds <= MaxTicks * TickSeconds
    /\ now' = now + TickSeconds
    /\ audit' = [audit EXCEPT !.frescas = {}]
    /\ UNCHANGED <<cache, callers>>
    /\ UNCHANGED CacheVars

InitCache ==
    /\ cache = <<>>
    /\ callers = [s \in Sessions |-> Idle]
    /\ now = 0
    /\ audit = [escritas |-> {}, frescas |-> {}]
    /\ df = NoneDF /\ evaluado = NotRun
    /\ html = IdleHtml /\ sinaica_ret = NotRun
    /\ oq = IdleOQ /\ scan = IdleScan

NextCache ==
    CallSinaica \/ CallOpenAQ \/ Acquire \/ Return \/ Seguir \/ LimpiarCache \/ Tick

SpecCache == InitCache /\ [][NextCache]_vars

\* C7: a function body is run for a source and station id only when the cache
\* holds no live entry for that source and station id, whichever credential
\* the entry was fetched with: two fetches inside one TTL window cause one
\* upstream call.
C7_UnaLlamadaPorVentana ==
    [][\A s \in Sessions :
          (callers[s].pc # "computing" /\ callers'[s].pc = "computing") =>
              ~ \E k \in DOMAIN cache :
                    SpecKey(k) = SpecKey(callers'[s].key) /\ Fresh(cache, k, now)]_vars

\* C8: at most one upstream call per source and station id is in flight.
C8_UnSoloVuelo ==
    \A s \in Sessions : \A r \in Sessions :
        (/\ s # r
         /\ callers[s].pc = "computing"
         /\ callers[r].pc = "computing")
        => SpecKey(callers[s].key) # SpecKey(callers[r].key)

\* C9: after 'Limpiar Cache' the cache holds no entry of either function:
\* every entry it holds was written after the latest invalidation, and a fetch
\* of a key without an entry written since, no fetch of the key being in
\* flight, runs the function body, live though the removed entry was.
C9_LimpiarVaciaCache ==
    /\ [](DOMAIN cache \subseteq audit.escritas)
    /\ [][\A s \in Sessions :
             (/\ callers[s].pc = "idle"
              /\ callers'[s].pc # "idle"
              /\ callers'[s].key \notin audit.escritas
              /\ Computing(callers'[s].key) = {})
             => callers'[s].pc = "computing"]_vars

\* A body run for a key whose live entry the invalidation has just removed,
\* for each of the two functions.
C9_Witness ==
    /\ \E s \in Sessions :
          /\ callers[s].pc = "computing"
          /\ callers[s].key \in audit.frescas
          /\ callers[s].key[1] = "get_openaq_data"
    /\ \E s \in Sessions :
          /\ callers[s].pc = "computing"
          /\ callers[s].key \in audit.frescas
          /\ callers[s].key[1] = "get_sinaica_data"

\* Under the key of the cache itself (function and all arguments) the lock
\* does keep the calls in flight to one.
UnVueloPorClave ==
    \A s \in Sessions : \A r \in Sessions :
        (s # r /\ callers[s].pc = "computing" /\ callers[r].pc = "computing")
        => callers[s].key # callers[r].key

-----------------------------------------------------------------------------
(* The scan: credentials, diagnostics and the results kept *)

\* The attempts of the run on the REST source, in the order they were made.
IntentosOpenAQ == SelectSeq(scan.intentos, LAMBDA a : a.fuente = "OPENAQ")

\* The number of REST fetches of the run made with credential k.
FetchesCon(k) ==
    Cardinality({i \in 1..Len(IntentosOpenAQ) : IntentosOpenAQ[i].api_key = k})

\* C14: the credentials are taken round-robin.  The successive REST fetches
\* of a run use the successive entries of the pool, cyclically from the first,
\* so the numbers of fetches made with any two credentials differ by at most
\* one.
C14_RoundRobin ==
    scan.pc # "idle" =>
        /\ \A i \in 1..Len(IntentosOpenAQ) :
              IntentosOpenAQ[i].api_key = API_KEYS[((i - 1) % Len(API_KEYS)) + 1]
        /\ \A a \in 1..Len(API_KEYS) : \A b \in 1..Len(API_KEYS) :
              FetchesCon(API_KEYS[a]) - FetchesCon(API_KEYS[b]) <= 1

\* A finished run over three stations: the first and the third REST fetch
\* used the first credential, the second fetch the second.
C14_Witness ==
    /\ scan.pc = "done"
    /\ Len(IntentosOpenAQ) = 3
    /\ IntentosOpenAQ[1].api_key = API_KEYS[1]
    /\ IntentosOpenAQ[2].api_key = API_KEYS[2]
    /\ IntentosOpenAQ[3].api_key = API_KEYS[1]
    /\ FetchesCon(API_KEYS[1]) = 2 /\ FetchesCon(API_KEYS[2]) = 1

\* C15: every failure of a run that does not end it (timeout, HTTP error,
\* parse error, exception, empty result) leaves a diagnostic naming both the
\* station and the source; no pair that failed or came back empty ends the
\* run without one.
C15_DiagnosticoPorFalla ==
    scan.pc = "done" =>
        \A i \in 1..Len(scan.intentos) :
            scan.intentos[i].kind # "ok" =>
                \E j \in 1..Len(scan.diags) :
                    /\ scan.diags[j].estacion = scan.intentos[i].estacion
                    /\ scan.diags[j].fuente = scan.intentos[i].fuente

\* What the code does keep: an exception that leaves a fetch call is reported
\* with the station and the source (lines 583, 629).
DiagnosticoPorExcepcion ==
    scan.pc = "done" =>
        \A i \in 1..Len(scan.intentos) :
            scan.intentos[i].kind = "raise" =>
                \E j \in 1..Len(scan.diags) :
                    /\ scan.diags[j].estacion = scan.intentos[i].estacion
                    /\ scan.diags[j].fuente = scan.intentos[i].fuente

\* The entries of resultados for station e and source f.
ResultadosDe(e, f) ==
    {i \in 1..Len(scan.resultados) :
        scan.resultados[i].estacion = e /\ scan.resultados[i].fuente = f}

\* The attempts of the run that returned a frame with a row, in order.
IntentosConFila == SelectSeq(scan.intentos, LAMBDA a : a.kind = "ok")

\* C16: after a run, resultados holds an entry for every selected
\* station and every requested source, whether the fetch succeeded or failed.
C16_UnaEntradaPorFuente ==
    scan.pc = "done" =>
        \A e \in Seleccionadas :
            \A k \in 1..Len(FuentesPedidas(scan.fuente_seleccionada)) :
                Cardinality(ResultadosDe(e, FuentesPedidas(scan.fuente_seleccionada)[k])) = 1

\* What the code does keep: for every selected station each requested source
\* is attempted once, whatever the other source came to, and resultados holds,
\* in the order of the attempts, one entry for every attempt that returned a
\* frame with a row, also for a second source after the first succeeded, and
\* no entry for an attempt that failed or came back empty.
EntradaPorFuenteConFila ==
    /\ scan.pc = "done" =>
          \A e \in Seleccionadas :
              \A k \in 1..Len(FuentesPedidas(scan.fuente_seleccionada)) :
                  Cardinality({i \in IntentosDe(e) :
                      scan.intentos[i].fuente = FuentesPedidas(scan.fuente_seleccionada)[k]}) = 1
    /\ scan.pc \in {"loop", "sinaica", "openaq", "progress", "done"} =>
          /\ Len(scan.resultados) = Len(IntentosConFila)
          /\ \A i \in 1..Len(IntentosConFila) :
                /\ scan.resultados[i].estacion = IntentosConFila[i].estacion
                /\ scan.resultados[i].fuente = IntentosConFila[i].fuente
                /\ scan.resultados[i].row = evaluar_calidad_aire(IntentosConFila[i].ret).rows[1]

-----------------------------------------------------------------------------
(* The cache: failed fetches *)

\* C19: a failed fetch is cached like a successful one.  The value a body
\* returns, None for a failure or an empty result included, is the live entry
\* of its key from then on; a fetch that finds a live entry returns that
\* entry, the same failure, without running the body; and the body is run
\* again only for a key without live entry, the TTL having expired or the
\* cache having been cleared.  The key is that of the cache: the function and
\* its arguments.
C19_FallaEnCache ==
    [][\A s \in Sessions :
          /\ (callers[s].pc = "computing" /\ callers'[s].pc = "returned") =>
                /\ Fresh(cache', callers[s].key, now')
                /\ cache'[callers[s].key].value = callers'[s].ret
                /\ ~callers'[s].hit
          /\ (callers[s].pc \in {"idle", "waiting"} /\ callers'[s].pc = "returned") =>
                /\ Fresh(cache, callers'[s].key, now)
                /\ callers'[s].ret = cache[callers'[s].key].value
                /\ callers'[s].hit
          /\ (callers[s].pc \in {"idle", "waiting"} /\ callers'[s].pc = "computing") =>
                ~Fresh(cache, callers'[s].key, now)
          /\ (callers[s].pc = "idle" /\ callers'[s].pc # "idle"
               /\ Fresh(cache, callers'[s].key, now)) =>
                callers'[s].pc = "returned"]_vars

\* A fetch made 300 s after the failed fetch of its key was stored has
\* returned the stored None without running the body, for each function.
C19_Witness ==
    \E s \in Sessions : \E r \in Sessions :
        /\ callers[s].pc = "returned" /\ callers[s].hit
        /\ callers[s].key[1] = "get_sinaica_data"
        /\ callers[s].ret = NoneDF
        /\ callers[s].key \in DOMAIN cache
        /\ cache[callers[s].key].written + TickSeconds <= now
        /\ callers[r].pc = "returned" /\ callers[r].hit
        /\ callers[r].key[1] = "get_openaq_data"
        /\ callers[r].ret = NoneDF
        /\ callers[r].key \in DOMAIN cache
        /\ cache[callers[r].key].written + TickSeconds <= now

====
